---- MODULE Spec2Model ----
(***************************************************************************)
(* Verification model of the concurrency primitives of cpp_thread_learning *)
(* 05_dead_lock: the hierarchical mutex, the resource (wait-for) graph     *)
(* with its cycle search, and the tracked mutex wrapper that feeds it;     *)
(* 03_produce_consume: the bounded queue; 04_shared_mutex: the reader-     *)
(* writer cache; 06_thread_pool: the priority worker pool.                 *)
(*                                                                         *)
(* The specifications of the module, one per program part:                 *)
(*   SpecH  threads calling HierarchicalMutex lock / try_lock / unlock     *)
(*   SpecG  threads calling the ResourceGraph API directly                 *)
(*   SpecT  threads calling TrackedMutex lock / try_lock / unlock and a    *)
(*          detector polling ResourceGraph::hasDeadlock                    *)
(*   SpecQ  producers and consumers on a ThreadSafeQueue                   *)
(*   SpecQLive  SpecQ with fair scheduling of the threads                  *)
(*   SpecC  readers and writers on a ThreadSafeCache                       *)
(*   SpecP  submitters, workers and the destructor of a ThreadPool         *)
(*   SpecPLive  SpecP with fair scheduling of the threads                  *)
(*   SpecPW SpecP with a thread calling wait_all                           *)
(***************************************************************************)
EXTENDS Integers, Sequences, FiniteSets, TLC

VARIABLES
    \* ---- HierarchicalMutex (hierarchical_mutex.hpp / .cpp)
    hierarchy_level,            \* [HMutexes -> Levels]   const member, set by the constructor
    hmutex,                     \* [HMutexes -> 0..n]     owner of the std::mutex member, 0 = free
    previous_hierarchy_level,   \* [HThreads -> Levels]   the thread_local static
    hpc,                        \* [HThreads -> 0..n]     0 = not in a call, m = inside mutex.lock() of m
    held,                       \* [HThreads -> Seq]      history: locks owned, in acquisition order
    lifo,                       \* BOOLEAN               history: every unlock so far released its thread's newest lock
    hret,                       \* what the last step's call threw or returned, "none" if it only changed state
    \* ---- ResourceGraph (resource_graph.hpp / .cpp)
    thread_holds,               \* std::map<thread::id, set<mutex*>>: a function on the keys present
    thread_waits,               \* std::map<thread::id, set<mutex*>>: a function on the keys present
    ret,                        \* what the call that returned in the last step answered, "none" if nothing to tell
    \* ---- TrackedMutex (tracked_mutex.hpp / .cpp) and the mutexes it wraps
    mtx,                        \* [Mutexes -> 0..n]      owner of the wrapped std::mutex, 0 = free
    locked,                     \* [Threads -> [Mutexes -> BOOLEAN]]  flag of the thread's wrapper of m
    pc,                         \* [Threads -> position inside a TrackedMutex call]
    \* ---- ThreadSafeQueue (03_produce_consume/src/main.cpp)
    capacity,                   \* size_t capacity, set by the constructor
    queue,                      \* std::queue<T> queue, front first
    qpc,                        \* [QThreads -> "run" | "wait" | "woken"]  position around the condition wait
    qi,                         \* [QThreads -> Nat]     loop counter i of producer() / consumer()
    pushed,                     \* history: the items in the order queue.push appended them
    popped,                     \* history: the items in the order consume() returned them
    \* ---- ThreadSafeCache (04_shared_mutex/src/main.cpp)
    cache,                      \* std::unordered_map<K, V> cache: a function on the keys present
    cpc,                        \* [CThreads -> <<"idle" | "load", key, write seen at the start>>]
    lastWrite,                  \* history: [Keys -> value of the last committed write, NoWrite if none]
    cret,                       \* what the read() that returned in the last step answered, <<"none">> otherwise
    \* ---- ThreadPool (06_thread_pool/src/main.cpp)
    tasks,                      \* std::priority_queue<Task> tasks: the set of the queued Task records
    future,                     \* shared state of the future of every accepted task, by id
    fate,                       \* history: what the pool did with every accepted task, by id
    runs,                       \* history: how often the callable of every accepted task was called, by id
    wpc,                        \* [Workers -> position inside worker_thread]
    stop,                       \* std::atomic<bool> stop
    dpc,                        \* position of ~ThreadPool: "alive" | "notify" | "join" | "returned"
    active_threads,             \* the five std::atomic counters
    completed_tasks,
    failed_tasks,
    timeout_tasks,
    cancelled_tasks,
    pret,                       \* what the submit or wait_all of the last step answered, "none" otherwise
    wapc                        \* position of the thread calling wait_all

varsH == <<hierarchy_level, hmutex, previous_hierarchy_level, hpc, held, lifo, hret>>
varsG == <<thread_holds, thread_waits, ret>>
varsT == <<mtx, locked, pc>>
varsQ == <<capacity, queue, qpc, qi, pushed, popped>>
varsC == <<cache, cpc, lastWrite, cret>>
varsP == <<tasks, future, fate, runs, wpc, stop, dpc, active_threads,
           completed_tasks, failed_tasks, timeout_tasks, cancelled_tasks, pret, wapc>>
varsDL == <<varsH, varsG, varsT>>
vars  == <<varsH, varsG, varsT, varsQ, varsC, varsP>>

\* ------------------------------------------------------------------ bounds
NumHThreads == 2
NumHMutexes == 3
NumGThreads == 2
NumGLocks   == 2
NumThreads  == 2
NumMutexes  == 2

HThreads == 1..NumHThreads
HMutexes == 1..NumHMutexes
\* climits: the largest unsigned long, scaled so that every mutex can have a
\* level of its own below it
ULONG_MAX == NumHMutexes
Levels   == 0..ULONG_MAX
Free     == 0

\* Ascending sequence of a finite set of integers: the iteration order of
\* std::map keys and std::set elements.
RECURSIVE Sorted(_)
Sorted(S) ==
    IF S = {} THEN <<>>
    ELSE LET lo == CHOOSE x \in S : \A y \in S : x <= y
         IN  <<lo>> \o Sorted(S \ {lo})

Last(s) == s[Len(s)]
Without(s, x) == SelectSeq(s, LAMBDA e : e # x)

\* ======================================================= HierarchicalMutex

\* hierarchical_mutex.cpp:10 and :28, the level check of lock() and try_lock()
ViolatesStrict(prev, level) == prev < level
Violates(prev, level) == prev <= level

\* hierarchical_mutex.cpp:22, the value unlock() stores in previous_hierarchy_level
UnlockLevelReset(t, m) == ULONG_MAX
UnlockLevel(t, m) == hierarchy_level[m]

\* The levels the constructor is given (line 3-4).  Levels are only ever compared,
\* with each other and with ULONG_MAX (lines 10 and 28), and mutexes are
\* interchangeable, so every assignment is represented by the one of the same
\* order type: mutexes numbered by level, levels 0, 1, ... without gaps, a level
\* shared by neighbours or not, the top levels ULONG_MAX itself or not.
LevelAssignments ==
    {f \in [HMutexes -> Levels] :
        /\ f[1] \in {0, ULONG_MAX}
        /\ \A m \in HMutexes \ {1} : f[m] \in {f[m - 1], f[m - 1] + 1, ULONG_MAX}}

InitH ==
    /\ hierarchy_level \in LevelAssignments
    /\ hmutex = [m \in HMutexes |-> Free]
    /\ previous_hierarchy_level = [t \in HThreads |-> ULONG_MAX]
    /\ hpc = [t \in HThreads |-> 0]
    /\ held = [t \in HThreads |-> <<>>]
    /\ lifo = TRUE
    /\ hret = "none"

\* The effect of lines 14-16 once mutex.lock() has the mutex: the thread owns it
\* and records its level (previous_hierarchy_level is thread-local, so no other
\* thread can see the gap between the two lines).
HAcquiredLevelKept(t, m) ==
    /\ hmutex' = [hmutex EXCEPT ![m] = t]
    /\ UNCHANGED previous_hierarchy_level
    /\ held' = [held EXCEPT ![t] = Append(@, m)]
HAcquired(t, m) ==
    /\ hmutex' = [hmutex EXCEPT ![m] = t]
    /\ previous_hierarchy_level' = [previous_hierarchy_level EXCEPT ![t] = hierarchy_level[m]]
    /\ held' = [held EXCEPT ![t] = Append(@, m)]

\* lock(), lines 6-17, up to its return or to the point where it blocks: a
\* violating call throws (lines 10-13); any other calls mutex.lock() (line 14),
\* which takes a free mutex at once and otherwise leaves the thread blocked.
HLockCall(t, m) ==
    /\ hpc[t] = 0
    /\ IF Violates(previous_hierarchy_level[t], hierarchy_level[m])
       THEN /\ hret' = "HierarchyViolation"
            /\ UNCHANGED <<hmutex, previous_hierarchy_level, held, hpc>>
       ELSE /\ hret' = "none"
            /\ IF hmutex[m] = Free
               THEN HAcquired(t, m) /\ UNCHANGED hpc
               ELSE hpc' = [hpc EXCEPT ![t] = m]
                    /\ UNCHANGED <<hmutex, previous_hierarchy_level, held>>
    /\ UNCHANGED <<hierarchy_level, lifo>>
    /\ UNCHANGED <<varsG, varsT, varsQ, varsC, varsP>>

\* lock(), lines 14-16, for a thread that blocked: the mutex was released and
\* mutex.lock() returns.
HLockAcquire(t, m) ==
    /\ hpc[t] = m
    /\ hmutex[m] = Free
    /\ HAcquired(t, m)
    /\ hpc' = [hpc EXCEPT ![t] = 0]
    /\ hret' = "none"
    /\ UNCHANGED <<hierarchy_level, lifo>>
    /\ UNCHANGED <<varsG, varsT, varsQ, varsC, varsP>>

\* lock(), line 14 reached by the owner of the mutex (possible only after an
\* out-of-order unlock): std::mutex::lock() by the owning thread is undefined; a
\* build either leaves the thread blocked for ever (no step: HLockAcquire stays
\* disabled) or reports resource_deadlock_would_occur as std::system_error,
\* which is this step.
HLockSelfError(t, m) ==
    /\ hpc[t] = m
    /\ hmutex[m] = t
    /\ hpc' = [hpc EXCEPT ![t] = 0]
    /\ hret' = "system_error"
    /\ UNCHANGED <<hierarchy_level, hmutex, previous_hierarchy_level, held, lifo>>
    /\ UNCHANGED <<varsG, varsT, varsQ, varsC, varsP>>

\* try_lock(), lines 26-38: never blocks.  (mutex.try_lock() by the owner of the
\* mutex is undefined; builds answer false, as for any owned mutex.)
HTryLock(t, m) ==
    /\ hpc[t] = 0
    /\ IF ~Violates(previous_hierarchy_level[t], hierarchy_level[m]) /\ hmutex[m] = Free
       THEN /\ HAcquired(t, m)
            /\ hret' = "none"
       ELSE /\ hret' = "none"
            /\ UNCHANGED <<hmutex, previous_hierarchy_level, held>>
    /\ UNCHANGED <<hierarchy_level, hpc, lifo>>
    /\ UNCHANGED <<varsG, varsT, varsQ, varsC, varsP>>

\* unlock(), lines 19-24, called by a thread on a lock it owns.
HUnlock(t, m) ==
    /\ hpc[t] = 0
    /\ hmutex[m] = t
    /\ previous_hierarchy_level' = [previous_hierarchy_level EXCEPT ![t] = UnlockLevel(t, m)]
    /\ hmutex' = [hmutex EXCEPT ![m] = Free]
    /\ held' = [held EXCEPT ![t] = Without(@, m)]
    /\ lifo' = (lifo /\ m = Last(held[t]))
    /\ hret' = "none"
    /\ UNCHANGED <<hierarchy_level, hpc>>
    /\ UNCHANGED <<varsG, varsT, varsQ, varsC, varsP>>

\* ------------------------------------------- HierarchicalMutex: properties

HeldSet(t) == {held[t][i] : i \in 1..Len(held[t])}

\* t is inside mutex.lock() of a mutex that another thread owns
HBlockedOn(t, u) == hpc[t] # 0 /\ u # t /\ hmutex[hpc[t]] = u

\* A set of threads each blocked in lock() on a mutex held by another of the set
HDeadlock ==
    \E S \in SUBSET HThreads :
        /\ S # {}
        /\ \A t \in S : \E u \in S : HBlockedOn(t, u)

\* C1 (as claimed; the code violates it).  unlock() restores the caller's
\* previous_hierarchy_level to the value it had before the matching acquire.
\* Since a successful acquire stores the lock's own level, in a LIFO-nested
\* history this says: previous_hierarchy_level is the level of the newest lock
\* still held, and ULONG_MAX again once the thread holds none.
C1_UnlockRestoresPrevious ==
    lifo => \A t \in HThreads :
                previous_hierarchy_level[t] =
                    IF held[t] = <<>> THEN ULONG_MAX
                    ELSE hierarchy_level[Last(held[t])]

C3_NoDeadlockAnyOrder == ~HDeadlock

\* C3 (amended).  If every thread releases its locks in LIFO order, no set of
\* threads is ever blocked in lock() in a cycle.
C3_NoDeadlockLifo == lifo => ~HDeadlock

\* C3 witness: under LIFO release a thread that holds a lock is blocked on a
\* lock of another thread, which holds two.
C3_Witness ==
    /\ lifo
    /\ \E t, u \in HThreads :
          HBlockedOn(t, u) /\ held[t] # <<>> /\ Len(held[u]) >= 2

\* ============================================================ ResourceGraph

GThreads == 1..NumGThreads
GLocks   == 1..NumGLocks

\* A std::map<thread::id, set<mutex*>> is a function on the keys present.
EmptyMap == [k \in {} |-> {}]
\* map[k]: the mapped set, a new empty one when the key is absent
At(map, k) == IF k \in DOMAIN map THEN map[k] ELSE {}
MapPut(map, k, v) == [x \in DOMAIN map \cup {k} |-> IF x = k THEN v ELSE map[x]]
MapErase(map, k) == [x \in DOMAIN map \ {k} |-> map[x]]

\* acquireLock, lines 7-13: thread_holds[id].insert(mtx)
acquireLock(holds, id, m) == MapPut(holds, id, At(holds, id) \cup {m})

\* releaseLock, lines 19-30: erase mtx, then erase the key of an empty set
releaseLock(holds, id, m) ==
    LET erased == MapPut(holds, id, At(holds, id) \ {m})
    IN  IF erased[id] = {} THEN MapErase(erased, id) ELSE erased

\* waitForLock, lines 36-41: thread_waits[id].insert(mtx)
waitForLock(waits, id, m) == MapPut(waits, id, At(waits, id) \cup {m})

\* stopWaiting, lines 47-58: erase mtx, then erase the key of an empty set
stopWaiting(waits, id, m) ==
    LET erased == MapPut(waits, id, At(waits, id) \ {m})
    IN  IF erased[id] = {} THEN MapErase(erased, id) ELSE erased

\* hasCycle, lines 103-107 / 124-130: the threads the two nested loops reach, in
\* order: for each lock current waits for (std::set order), each key of
\* thread_holds (std::map order) whose set contains the lock.
RECURSIVE HoldersInOrder(_, _, _)
HoldersInOrder(locks, keys, holds) ==
    IF locks = <<>> THEN <<>>
    ELSE SelectSeq(keys, LAMBDA id : Head(locks) \in holds[id])
            \o HoldersInOrder(Tail(locks), keys, holds)

\* hasCycle, lines 93-157.  st = [visited, stack, found] are the two sets passed
\* by reference and the value returned.  thread_waits[current] (line 101 / 121)
\* also inserts an empty set for a current without a key: every thread in
\* visited has been a current, so the keys added are those of visited.
RECURSIVE hasCycleNoPop(_, _, _, _), hasCycle(_, _, _, _), hasCycleLoop(_, _, _, _)
hasCycleNoPop(current, st, holds, waits) ==
    hasCycleLoop(HoldersInOrder(Sorted(At(waits, current)), Sorted(DOMAIN holds), holds),
                 [visited |-> st.visited \cup {current},
                  stack |-> st.stack \cup {current},
                  found |-> FALSE],
                 holds, waits)
hasCycle(current, st, holds, waits) ==
    LET entered == [visited |-> st.visited \cup {current},
                    stack |-> st.stack \cup {current},
                    found |-> FALSE]
        r == hasCycleLoop(HoldersInOrder(Sorted(At(waits, current)),
                                         Sorted(DOMAIN holds), holds),
                          entered, holds, waits)
    IN  IF r.found THEN r
        ELSE [r EXCEPT !.stack = r.stack \ {current}]
\* the body of the inner loop, lines 109-146, over the remaining holders
hasCycleLoop(ids, st, holds, waits) ==
    IF ids = <<>> THEN st
    ELSE LET thread_id == Head(ids)
         IN  IF thread_id \notin st.visited
             THEN LET r == hasCycle(thread_id, st, holds, waits)
                  IN  IF r.found THEN r
                      ELSE hasCycleLoop(Tail(ids), r, holds, waits)
             ELSE IF thread_id \in st.stack
                  THEN [st EXCEPT !.found = TRUE]
                  ELSE hasCycleLoop(Tail(ids), st, holds, waits)

\* hasDeadlock, lines 64-84: the loop over the keys of thread_holds
RECURSIVE hasDeadlockLoop(_, _, _, _)
hasDeadlockLoop(ids, st, holds, waits) ==
    IF ids = <<>> THEN st
    ELSE IF Head(ids) \notin st.visited
         THEN LET r == hasCycle(Head(ids), st, holds, waits)
              IN  IF r.found THEN r
                  ELSE hasDeadlockLoop(Tail(ids), r, holds, waits)
         ELSE hasDeadlockLoop(Tail(ids), st, holds, waits)

hasDeadlock(holds, waits) ==
    hasDeadlockLoop(Sorted(DOMAIN holds),
                    [visited |-> {}, stack |-> {}, found |-> FALSE],
                    holds, waits)

\* thread_waits after hasDeadlock: line 101 / 121 has added the missing keys
WaitsAfterSearch(waits, visited) ==
    [id \in DOMAIN waits \cup visited |-> At(waits, id)]

BoolRet(b) == IF b THEN "true" ELSE "false"

InitG ==
    /\ thread_holds = EmptyMap
    /\ thread_waits = EmptyMap
    /\ ret = "none"

\* --- the graph API called directly, by any thread, in any order
GAcquireLock(t, m) ==
    /\ thread_holds' = acquireLock(thread_holds, t, m)
    /\ ret' = "none"
    /\ UNCHANGED <<thread_waits, varsH, varsT, varsQ, varsC, varsP>>

GReleaseLock(t, m) ==
    /\ thread_holds' = releaseLock(thread_holds, t, m)
    /\ ret' = "none"
    /\ UNCHANGED <<thread_waits, varsH, varsT, varsQ, varsC, varsP>>

GWaitForLock(t, m) ==
    /\ thread_waits' = waitForLock(thread_waits, t, m)
    /\ ret' = "none"
    /\ UNCHANGED <<thread_holds, varsH, varsT, varsQ, varsC, varsP>>

GStopWaiting(t, m) ==
    /\ thread_waits' = stopWaiting(thread_waits, t, m)
    /\ ret' = "none"
    /\ UNCHANGED <<thread_holds, varsH, varsT, varsQ, varsC, varsP>>

GHasDeadlock ==
    LET r == hasDeadlock(thread_holds, thread_waits)
    IN  /\ ret' = BoolRet(r.found)
        /\ thread_waits' = WaitsAfterSearch(thread_waits, r.visited)
        /\ UNCHANGED <<thread_holds, varsH, varsT, varsQ, varsC, varsP>>

\* ------------------------------------------------ ResourceGraph: properties

\* u holds a lock that t waits for: the edge t -> L -> u of the hold/wait graph
WaitsOn(t, u) ==
    /\ t \in DOMAIN thread_waits
    /\ u \in DOMAIN thread_holds
    /\ thread_waits[t] \cap thread_holds[u] # {}

\* A cycle T0 -> L0 -> T1 -> ... -> Tn = T0 over the thread ids in ids
CycleAmong(ids) ==
    \E n \in 1..Cardinality(ids) :
        \E T \in [0..n -> ids] :
            /\ T[n] = T[0]
            /\ \A i \in 0..(n - 1) : WaitsOn(T[i], T[i + 1])

GraphThreads == DOMAIN thread_holds \cup DOMAIN thread_waits

LoneThreadGraph ==
    \E t \in GThreads, m \in GLocks :
        /\ thread_waits = [id \in {t} |-> {m}]
        /\ \/ thread_holds = EmptyMap
           \/ thread_holds = [id \in {t} |-> {m}]

\* C5 (as claimed; the code violates it).  After each of waitForLock(m),
\* acquireLock(m), releaseLock(m) by a lone thread, hasDeadlock() is false.
C5_LoneThreadNeverDeadlocked ==
    (LoneThreadGraph /\ ret # "none") => ret = "false"

\* C8 (as claimed; the code violates it).  Every key of thread_holds and of
\* thread_waits maps to a non-empty set.
C8_NoEmptySets ==
    /\ \A id \in DOMAIN thread_holds : thread_holds[id] # {}
    /\ \A id \in DOMAIN thread_waits : thread_waits[id] # {}

NextG ==
    \/ \E t \in GThreads, m \in GLocks :
          \/ GAcquireLock(t, m)
          \/ GReleaseLock(t, m)
          \/ GWaitForLock(t, m)
          \/ GStopWaiting(t, m)
    \/ GHasDeadlock

\* ============================================================= TrackedMutex

Threads == 1..NumThreads
Mutexes == 1..NumMutexes

\* Each thread has its own wrapper TrackedMutex(&m, &graph) of every mutex m, as
\* the threads of simulateDeadlockScenario do (main.cpp:19-20, 40-41);
\* locked[t][m] is the flag of t's wrapper of m (tracked_mutex.hpp:19).
InitT ==
    /\ mtx = [m \in Mutexes |-> Free]
    /\ locked = [t \in Threads |-> [m \in Mutexes |-> FALSE]]
    /\ pc = [t \in Threads |-> <<"idle", 0>>]

Idle(t) == pc[t] = <<"idle", 0>>
Goto(t, label, m) == pc' = [pc EXCEPT ![t] = <<label, m>>]
Return(t) == pc' = [pc EXCEPT ![t] = <<"idle", 0>>]
SetLocked(t, m, b) == locked' = [locked EXCEPT ![t][m] = b]

\* lock(), line 30: graph->waitForLock(mtx).  A thread calls lock() and
\* try_lock() on a wrapper it has not locked: std::mutex requires that the
\* caller does not own the mutex.
TLockCallUnregistered(t, m) ==
    /\ Idle(t) /\ ~locked[t][m]
    /\ Goto(t, "lock_mtx", m)
    /\ ret' = "none"
    /\ UNCHANGED <<thread_holds, thread_waits, mtx, locked, varsH, varsQ, varsC, varsP>>
TLockCall(t, m) ==
    /\ Idle(t) /\ ~locked[t][m]
    /\ thread_waits' = waitForLock(thread_waits, t, m)
    /\ Goto(t, "lock_mtx", m)
    /\ ret' = "none"
    /\ UNCHANGED <<thread_holds, mtx, locked, varsH, varsQ, varsC, varsP>>

\* lock(), lines 31-32: mtx->lock() returns once the mutex is free; locked = true
TLockMtx(t, m) ==
    /\ pc[t] = <<"lock_mtx", m>>
    /\ mtx[m] = Free
    /\ mtx' = [mtx EXCEPT ![m] = t]
    /\ SetLocked(t, m, TRUE)
    /\ Goto(t, "lock_stop", m)
    /\ ret' = "none"
    /\ UNCHANGED <<thread_holds, thread_waits, varsH, varsQ, varsC, varsP>>

\* lock(), line 33: graph->stopWaiting(mtx)
TLockStop(t, m) ==
    /\ pc[t] = <<"lock_stop", m>>
    /\ thread_waits' = stopWaiting(thread_waits, t, m)
    /\ Goto(t, "lock_acq", m)
    /\ ret' = "none"
    /\ UNCHANGED <<thread_holds, mtx, locked, varsH, varsQ, varsC, varsP>>

\* lock(), line 34: graph->acquireLock(mtx), and the return
TLockAcq(t, m) ==
    /\ pc[t] = <<"lock_acq", m>>
    /\ thread_holds' = acquireLock(thread_holds, t, m)
    /\ Return(t)
    /\ ret' = "none"
    /\ UNCHANGED <<thread_waits, mtx, locked, varsH, varsQ, varsC, varsP>>

\* try_lock(), line 16: graph->waitForLock(mtx)
TTryCall(t, m) ==
    /\ Idle(t) /\ ~locked[t][m]
    /\ thread_waits' = waitForLock(thread_waits, t, m)
    /\ Goto(t, "try_mtx", m)
    /\ ret' = "none"
    /\ UNCHANGED <<thread_holds, mtx, locked, varsH, varsQ, varsC, varsP>>

\* try_lock(), lines 17-19: mtx->try_lock(); locked = true when it succeeds
TTryMtx(t, m) ==
    /\ pc[t] = <<"try_mtx", m>>
    /\ IF mtx[m] = Free
       THEN /\ mtx' = [mtx EXCEPT ![m] = t]
            /\ SetLocked(t, m, TRUE)
            /\ Goto(t, "try_stop", m)
       ELSE /\ Goto(t, "try_fail", m)
            /\ UNCHANGED <<mtx, locked>>
    /\ ret' = "none"
    /\ UNCHANGED <<thread_holds, thread_waits, varsH, varsQ, varsC, varsP>>

\* try_lock(), line 20: graph->stopWaiting(mtx) after a success
TTryStop(t, m) ==
    /\ pc[t] = <<"try_stop", m>>
    /\ thread_waits' = stopWaiting(thread_waits, t, m)
    /\ Goto(t, "try_acq", m)
    /\ ret' = "none"
    /\ UNCHANGED <<thread_holds, mtx, locked, varsH, varsQ, varsC, varsP>>

\* try_lock(), lines 21-22: graph->acquireLock(mtx); return true
TTryAcq(t, m) ==
    /\ pc[t] = <<"try_acq", m>>
    /\ thread_holds' = acquireLock(thread_holds, t, m)
    /\ Return(t)
    /\ ret' = "none"
    /\ UNCHANGED <<thread_waits, mtx, locked, varsH, varsQ, varsC, varsP>>

\* try_lock(), lines 24-25: graph->stopWaiting(mtx); return false
TTryFail(t, m) ==
    /\ pc[t] = <<"try_fail", m>>
    /\ thread_waits' = stopWaiting(thread_waits, t, m)
    /\ Return(t)
    /\ ret' = "none"
    /\ UNCHANGED <<thread_holds, mtx, locked, varsH, varsQ, varsC, varsP>>

\* unlock(), lines 39-41: nothing when the flag is clear, else
\* graph->releaseLock(mtx)
TUnlockCallUnguarded(t, m) ==
    /\ Idle(t)
    /\ thread_holds' = releaseLock(thread_holds, t, m)
    /\ Goto(t, "unlock_mtx", m)
    /\ ret' = "none"
    /\ UNCHANGED <<thread_waits, mtx, locked, varsH, varsQ, varsC, varsP>>
TUnlockCallMutexFirst(t, m) ==
    /\ Idle(t)
    /\ IF locked[t][m]
       THEN /\ mtx' = [mtx EXCEPT ![m] = Free]
            /\ Goto(t, "unlock_graph", m)
            /\ ret' = "none"
       ELSE /\ ret' = "unlock_noop"
            /\ UNCHANGED <<mtx, pc>>
    /\ UNCHANGED <<thread_holds, thread_waits, locked, varsH, varsQ, varsC, varsP>>
TUnlockCall(t, m) ==
    /\ Idle(t)
    /\ IF locked[t][m]
       THEN /\ thread_holds' = releaseLock(thread_holds, t, m)
            /\ Goto(t, "unlock_mtx", m)
            /\ ret' = "none"
       ELSE /\ ret' = "unlock_noop"
            /\ UNCHANGED <<thread_holds, pc>>
    /\ UNCHANGED <<thread_waits, mtx, locked, varsH, varsQ, varsC, varsP>>

\* unlock(), lines 42-43: mtx->unlock(); locked = false
TUnlockMtx(t, m) ==
    /\ pc[t] = <<"unlock_mtx", m>>
    /\ mtx' = [mtx EXCEPT ![m] = Free]
    /\ SetLocked(t, m, FALSE)
    /\ Return(t)
    /\ ret' = "none"
    /\ UNCHANGED <<thread_holds, thread_waits, varsH, varsQ, varsC, varsP>>

\* ~TrackedMutex(), lines 6-12, entering unlock() (lines 39-41) when the flag is
\* set.  The thread's next wrapper of m is a new object, constructed with the
\* flag clear (tracked_mutex.hpp:19), which is the state the destructor leaves.
TDestroyCall(t, m) ==
    /\ Idle(t)
    /\ IF locked[t][m]
       THEN /\ thread_holds' = releaseLock(thread_holds, t, m)
            /\ Goto(t, "dtor_mtx", m)
            /\ ret' = "none"
       ELSE /\ ret' = "none"
            /\ UNCHANGED <<thread_holds, pc>>
    /\ UNCHANGED <<thread_waits, mtx, locked, varsH, varsQ, varsC, varsP>>

\* ~TrackedMutex(), in unlock() lines 42-43, and the end of the destructor
TDestroyMtx(t, m) ==
    /\ pc[t] = <<"dtor_mtx", m>>
    /\ mtx' = [mtx EXCEPT ![m] = Free]
    /\ SetLocked(t, m, FALSE)
    /\ Return(t)
    /\ ret' = "destroyed_locked"
    /\ UNCHANGED <<thread_holds, thread_waits, varsH, varsQ, varsC, varsP>>

\* The detector of simulateDeadlockScenario (main.cpp:59-67): a hasDeadlock()
\* call between any two steps of the other threads.
THasDeadlock ==
    LET r == hasDeadlock(thread_holds, thread_waits)
    IN  /\ ret' = BoolRet(r.found)
        /\ thread_waits' = WaitsAfterSearch(thread_waits, r.visited)
        /\ UNCHANGED <<thread_holds, varsT, varsH, varsQ, varsC, varsP>>

\* ------------------------------------------------- TrackedMutex: properties

HoldsEdge(t, m) == m \in At(thread_holds, t)
WaitsEdge(t, m) == m \in At(thread_waits, t)

\* C6 (as claimed; the code violates it).  After mtx->lock(), lock() clears the
\* wait edge and records the hold edge in one step on the graph: no state shows
\* a thread inside lock() that owns the mutex and has cleared its wait edge
\* (line 33 done) without having the hold edge.
C6_StopWaitAndHoldAtomic ==
    \A t \in Threads, m \in Mutexes :
        (pc[t][2] = m /\ pc[t][1] \in {"lock_stop", "lock_acq"}
            /\ mtx[m] = t /\ ~WaitsEdge(t, m))
        => HoldsEdge(t, m)

\* t is blocked inside mtx->lock() of m, which u owns
TBlockedOn(t, m, u) == pc[t] = <<"lock_mtx", m>> /\ mtx[m] = u /\ u # t

\* The interleaving of simulateDeadlockScenario in which both threads are
\* blocked in their second lock(): each owns one mutex and waits in lock() for
\* the one the other owns.
BothBlocked ==
    \E a, b \in Threads, m1, m2 \in Mutexes :
        /\ a # b /\ m1 # m2
        /\ mtx[m1] = a /\ locked[a][m1] /\ TBlockedOn(a, m2, b)
        /\ mtx[m2] = b /\ locked[b][m2] /\ TBlockedOn(b, m1, a)

\* C7.  Once two threads are blocked in their second lock() on each other's
\* mutex, every hasDeadlock() call returns true.
C7_BlockedPairIsReported ==
    (BothBlocked /\ ret \in {"true", "false"}) => ret = "true"

\* C7 witness: both threads are blocked and the detector has just polled.
C7_Witness == BothBlocked /\ ret = "true"

\* C9.  With the graph fed through TrackedMutex only, a lock is in at most one
\* thread's holds set, and a thread recorded as holding it owns the mutex.
C9_HoldsAreOwned ==
    /\ \A m \in Mutexes :
          Cardinality({id \in DOMAIN thread_holds : m \in thread_holds[id]}) <= 1
    /\ \A id \in DOMAIN thread_holds : \A m \in thread_holds[id] : mtx[m] = id

\* C9 witness: two threads each have a recorded hold, and one of them is
\* waiting in lock() for the other's mutex.
C9_Witness ==
    \E a, b \in Threads, m1, m2 \in Mutexes :
        /\ a # b
        /\ HoldsEdge(a, m1) /\ HoldsEdge(b, m2)
        /\ TBlockedOn(a, m2, b)

NextT ==
    \/ \E t \in Threads, m \in Mutexes :
          \/ TLockCall(t, m)
          \/ TLockMtx(t, m)
          \/ TLockStop(t, m)
          \/ TLockAcq(t, m)
          \/ TTryCall(t, m)
          \/ TTryMtx(t, m)
          \/ TTryStop(t, m)
          \/ TTryAcq(t, m)
          \/ TTryFail(t, m)
          \/ TUnlockCall(t, m)
          \/ TUnlockMtx(t, m)
          \/ TDestroyCall(t, m)
          \/ TDestroyMtx(t, m)
    \/ THasDeadlock

\* ========================================================= ThreadSafeQueue
\* 03_produce_consume/src/main.cpp.  Every critical section of produce() and
\* consume() runs from taking the mutex to the condition wait or to the end of
\* the call, so it is one step; a thread inside not_full.wait / not_empty.wait
\* has released the mutex and is "wait" until a notify_one picks it or it wakes
\* spuriously ("woken"), and then takes the mutex again and tests the predicate.

\* main.cpp:101-102
num_producers == 2
num_consumers == 3
\* main.cpp:103 (9 there); the loop bound of each producer
items_per_producer == 3
\* main.cpp:104-105
items_per_consumer == (num_producers * items_per_producer) \div num_consumers
\* main.cpp:99 constructs the queue with capacity 2; the constructor (line 20)
\* takes any capacity
MaxCapacity == 2

Producers == 1..num_producers
Consumers == (num_producers + 1)..(num_producers + num_consumers)
QThreads  == Producers \cup Consumers

\* main.cpp:78, the item of producer id in round i
ItemOf(id, i) == id * 1000 + i
ProducerOf(item) == item \div 1000

\* main.cpp:29 and :46, the predicates of the two waits
NotFullOffByOne(q, cap) == Len(q) <= cap
NotFull(q, cap) == Len(q) < cap
NotEmpty(q) == Len(q) > 0

\* main.cpp:48-49, queue.front() and queue.pop()
FrontNewest(q) == q[Len(q)]
Front(q) == Head(q)
PopNothing(q) == q
Pop(q) == Tail(q)

\* notify_one on the condition variable the threads of W wait on: one of the
\* threads inside wait() is released, and nothing happens when there is none.
NotifyNobody(pcs, W) == {pcs}
NotifyOne(pcs, W) ==
    LET waiting == {w \in W : pcs[w] = "wait"}
    IN  IF waiting = {} THEN {pcs}
        ELSE {[pcs EXCEPT ![w] = "woken"] : w \in waiting}

InitQ ==
    /\ capacity \in 1..MaxCapacity
    /\ queue = <<>>
    /\ qpc = [t \in QThreads |-> "run"]
    /\ qi = [t \in QThreads |-> 0]
    /\ pushed = <<>>
    /\ popped = <<>>

\* producer() has a call to make (line 74), or is back from the wait
QCanEnter(t, limit) ==
    \/ qpc[t] = "run" /\ qi[t] < limit
    \/ qpc[t] = "woken"

\* main.cpp:23-37 inside the loop of producer() (lines 74-79)
QProduce(p) ==
    /\ QCanEnter(p, items_per_producer)
    /\ IF NotFull(queue, capacity)
       THEN /\ queue' = Append(queue, ItemOf(p, qi[p]))
            /\ pushed' = Append(pushed, ItemOf(p, qi[p]))
            /\ qi' = [qi EXCEPT ![p] = @ + 1]
            /\ qpc' \in NotifyOne([qpc EXCEPT ![p] = "run"], Consumers)
       ELSE /\ qpc' = [qpc EXCEPT ![p] = "wait"]
            /\ UNCHANGED <<queue, pushed, qi>>
    /\ UNCHANGED <<capacity, popped, varsDL, varsC, varsP>>

\* main.cpp:40-57 inside the loop of consumer() (lines 89-94)
QConsume(c) ==
    /\ QCanEnter(c, items_per_consumer)
    /\ IF NotEmpty(queue)
       THEN /\ popped' = Append(popped, Front(queue))
            /\ queue' = Pop(queue)
            /\ qi' = [qi EXCEPT ![c] = @ + 1]
            /\ qpc' \in NotifyOne([qpc EXCEPT ![c] = "run"], Producers)
       ELSE /\ qpc' = [qpc EXCEPT ![c] = "wait"]
            /\ UNCHANGED <<queue, popped, qi>>
    /\ UNCHANGED <<capacity, pushed, varsDL, varsC, varsP>>

\* std::condition_variable::wait may return without a notification, which is
\* why lines 28 and 45 pass a predicate
QSpuriousWakeup(t) ==
    /\ qpc[t] = "wait"
    /\ qpc' = [qpc EXCEPT ![t] = "woken"]
    /\ UNCHANGED <<capacity, queue, qi, pushed, popped, varsDL, varsC, varsP>>

NextQ ==
    \/ \E p \in Producers : QProduce(p)
    \/ \E c \in Consumers : QConsume(c)
    \/ \E t \in QThreads : QSpuriousWakeup(t)

RECURSIVE SumOver(_, _)
SumOver(f, S) ==
    IF S = {} THEN 0
    ELSE LET x == CHOOSE y \in S : TRUE IN f[x] + SumOver(f, S \ {x})

QFinished ==
    /\ \A p \in Producers : qpc[p] = "run" /\ qi[p] = items_per_producer
    /\ \A c \in Consumers : qpc[c] = "run" /\ qi[c] = items_per_consumer

\* C11: in every reachable state of the bounded queue 0 <= size <= capacity,
\* whatever the interleaving of producers and consumers: produce never appends
\* to a full queue and consume never removes from an empty one.
C11_SizeWithinCapacity ==
    /\ Len(queue) >= 0
    /\ Len(queue) <= capacity
    /\ Len(pushed) >= Len(popped)

\* C11 witness: the queue is full and a producer is blocked in not_full.wait,
\* after a consumer had to wait on the empty queue.
C11_Witness ==
    /\ Len(queue) = capacity
    /\ \E p \in Producers : qpc[p] = "wait"
    /\ Len(popped) > 0

\* C12: the items consume() returns, in the order of the removals, are a
\* prefix of the items in the order produce() appended them; so the items of
\* one producer are consumed in that producer's order.
C12_Fifo ==
    /\ Len(popped) <= Len(pushed)
    /\ \A k \in 1..Len(popped) : popped[k] = pushed[k]
    /\ \A j, k \in 1..Len(popped) :
          (j < k /\ ProducerOf(popped[j]) = ProducerOf(popped[k])) => popped[j] < popped[k]

\* C12 witness: items of both producers were consumed, one of the second
\* producer before one of the first, while more items were queued behind.
C12_Witness ==
    /\ Len(queue) = 2
    /\ \E j, k \in 1..Len(popped) :
          j < k /\ ProducerOf(popped[j]) = 2 /\ ProducerOf(popped[k]) = 1

\* C13: completed produce calls = completed consume calls + items queued; no
\* item is returned twice and none is lost; and when all threads have finished
\* with matching totals the queue is empty and every item was consumed once.
C13_Conservation ==
    /\ SumOver(qi, Producers) = SumOver(qi, Consumers) + Len(queue)
    /\ SumOver(qi, Consumers) = Len(popped)
    /\ \A j, k \in 1..Len(popped) : j # k => popped[j] # popped[k]
    /\ {popped[k] : k \in 1..Len(popped)} \cup {queue[k] : k \in 1..Len(queue)}
          = UNION {{ItemOf(p, i) : i \in 0..(qi[p] - 1)} : p \in Producers}
    /\ (QFinished /\ num_producers * items_per_producer = num_consumers * items_per_consumer)
          => /\ queue = <<>>
             /\ {popped[k] : k \in 1..Len(popped)}
                   = {ItemOf(p, i) : p \in Producers, i \in 0..(items_per_producer - 1)}

\* C13 witness: every producer and consumer has finished, the totals match.
C13_Witness ==
    /\ QFinished
    /\ num_producers * items_per_producer = num_consumers * items_per_consumer
    /\ Len(popped) = num_producers * items_per_producer

\* ========================================================= ThreadSafeCache
\* 04_shared_mutex/src/main.cpp.  write() holds the mutex exclusively for its
\* whole body; read() looks the key up under the shared lock, and on a miss
\* calls loadFromDB with no lock held and then stores what it loaded under the
\* exclusive lock.  The shared section only reads, so each section is one step.

NumCThreads == 2
NumKeys     == 2
NumValues   == 1

CThreads == 1..NumCThreads
Keys     == 1..NumKeys
\* the values writers pass to write()
Values   == 1..NumValues
\* main.cpp:21, V{} returned by loadFromDB
DefaultValue == 0
NoWrite == -1

InitC ==
    /\ cache = << >>
    /\ cpc = [t \in CThreads |-> <<"idle", 0, NoWrite>>]
    /\ lastWrite = [k \in Keys |-> NoWrite]
    /\ cret = <<"none">>

\* main.cpp:29 cache[key] = value and :46 cache.insert_or_assign(key, value)
InsertOrAssign(c, k, v) == [x \in DOMAIN c \cup {k} |-> IF x = k THEN v ELSE c[x]]

\* main.cpp:25-30
CWrite(t, k, v) ==
    /\ cpc[t][1] = "idle"
    /\ cache' = InsertOrAssign(cache, k, v)
    /\ lastWrite' = [lastWrite EXCEPT ![k] = v]
    /\ cret' = <<"none">>
    /\ UNCHANGED <<cpc, varsDL, varsQ, varsP>>

\* main.cpp:32-41, the lookup under the shared lock: a hit returns the cached
\* value, a miss leaves for loadFromDB.  The position remembers the write that
\* had committed when the call started.
CReadFind(t, k) ==
    /\ cpc[t][1] = "idle"
    /\ IF k \in DOMAIN cache
       THEN /\ cret' = <<"read", k, cache[k], FALSE, lastWrite[k]>>
            /\ UNCHANGED cpc
       ELSE /\ cpc' = [cpc EXCEPT ![t] = <<"load", k, lastWrite[k]>>]
            /\ cret' = <<"none">>
    /\ UNCHANGED <<cache, lastWrite, varsDL, varsQ, varsP>>

\* main.cpp:43-48, loadFromDB and the store of its result
CReadStore(t) ==
    /\ cpc[t][1] = "load"
    /\ cache' = InsertOrAssign(cache, cpc[t][2], DefaultValue)
    /\ cret' = <<"read", cpc[t][2], DefaultValue, TRUE, cpc[t][3]>>
    /\ cpc' = [cpc EXCEPT ![t] = <<"idle", 0, NoWrite>>]
    /\ UNCHANGED <<lastWrite, varsDL, varsQ, varsP>>

NextC ==
    \/ \E t \in CThreads, k \in Keys, v \in Values : CWrite(t, k, v)
    \/ \E t \in CThreads, k \in Keys : CReadFind(t, k)
    \/ \E t \in CThreads : CReadStore(t)

\* C14: once write(k, v) has committed and no later write(k, .) is made, every
\* read(k) that starts afterwards returns v and does not invoke the loader.
\* cret = <<"read", key, value returned, loader invoked, last write committed
\* to the key when the read started>>.
C14_ReadAfterWriteReturnsIt ==
    (cret[1] = "read" /\ cret[5] # NoWrite /\ lastWrite[cret[2]] = cret[5])
        => (cret[3] = cret[5] /\ cret[4] = FALSE)

\* ============================================================== ThreadPool
\* 06_thread_pool/src/main.cpp.  The sections under queue_mutex are one step
\* each.  Tasks are numbered in the order submit accepted them.  A worker is
\*   <<"ready", 0>>   at the top of its loop or woken, about to take queue_mutex
\*   <<"wait", 0>>    inside condition.wait with the predicate false
\*   <<"got", id>>    out of the locked section with the callable of task id
\*   <<"exec", id>>   past active_threads++ (line 119), running task()
\*   <<"ran", id>>    past the counter of the outcome, before active_threads--
\*   <<"exited", 0>>  returned from worker_thread (line 89)

NumWorkers  == 2
MaxTasks    == 3
MaxPriority == 1

Workers    == 1..NumWorkers
Priorities == 0..MaxPriority
Accepted   == Len(future)
TaskIds    == 1..Accepted

\* main.cpp:36, Task::cancelled: initialised false, and nothing assigns it
Cancelled(id) == FALSE

\* main.cpp:206, the test submit makes under the lock
SubmitRefusesNever(s) == FALSE
SubmitRefuses(s) == s

\* main.cpp:87, the exit test of the worker
ExitNowOnStop(s, ts) == s
ExitNow(s, ts) == s /\ ts = {}

\* main.cpp:83-84, the predicate of condition.wait
WaitOver(s, ts) == s \/ ts # {}

\* main.cpp:44-47 and :96, tasks.top(): a task no other queued task is greater
\* than under operator<; which of several of one priority is not determined
\* by the priority
LessReversed(a, b) == a.priority > b.priority
Less(a, b) == a.priority < b.priority
TopTasks(ts) == {top \in ts : \A other \in ts : ~Less(top, other)}

\* main.cpp:31-41, a Task: its function (the packaged task of submission id)
\* and its priority
Task(id, p) == [id |-> id, priority |-> p]
QueuedIds == {t.id : t \in tasks}

\* main.cpp:112, tasks.pop()
PopKeeps(ts, top) == ts
Pop1(ts, top) == ts \ {top}

\* main.cpp:98-111 and :117: the callable is taken and run only when the task
\* is neither timed out nor cancelled
TakesCallableAlways(late, cancelled) == TRUE
TakesCallable(late, cancelled) == ~late /\ ~cancelled

\* main.cpp:197-198 and :211-212: the queued function calls a
\* std::packaged_task, which stores what the callable throws in the shared
\* state of the future and returns normally; no exception leaves task()
\* (line 123)
PackagedTaskFuture(throws) == IF throws THEN "error" ELSE "value"
PackagedTaskEscapes(throws) == FALSE

\* main.cpp:112 for a task whose callable was not taken: the queued function
\* held the last reference to the packaged_task (submit's own is gone when it
\* returns), so the destruction stores broken_promise in the future, whatever
\* the reason the task was dropped for
DroppedFuture(reason) == "broken_promise"

InitP ==
    /\ tasks = {}
    /\ future = <<>>
    /\ fate = <<>>
    /\ runs = <<>>
    /\ wpc = [w \in Workers |-> <<"ready", 0>>]
    /\ stop = FALSE
    /\ dpc = "alive"
    /\ active_threads = 0
    /\ completed_tasks = 0
    /\ failed_tasks = 0
    /\ timeout_tasks = 0
    /\ cancelled_tasks = 0
    /\ pret = "none"
    /\ wapc = <<"idle", 0>>

\* condition.notify_one (line 215) and notify_all (line 169)
PNotifyNobody(pcs) == {pcs}
PNotifyOne(pcs) ==
    LET waiting == {w \in Workers : pcs[w][1] = "wait"}
    IN  IF waiting = {} THEN {pcs}
        ELSE {[pcs EXCEPT ![w] = <<"ready", 0>>] : w \in waiting}
PNotifyAll(pcs) ==
    [w \in Workers |-> IF pcs[w][1] = "wait" THEN <<"ready", 0>> ELSE pcs[w]]

\* main.cpp:190-217
PSubmit(priority) ==
    /\ dpc # "returned"
    /\ IF SubmitRefuses(stop)
       THEN /\ pret' = "Stopped"
            /\ UNCHANGED <<tasks, future, fate, runs, wpc>>
       ELSE /\ Accepted < MaxTasks
            /\ tasks' = tasks \cup {Task(Accepted + 1, priority)}
            /\ future' = Append(future, "pending")
            /\ fate' = Append(fate, "queued")
            /\ runs' = Append(runs, 0)
            /\ wpc' \in PNotifyOne(wpc)
            /\ pret' = "accepted"
    /\ UNCHANGED <<stop, dpc, active_threads, completed_tasks, failed_tasks,
                   timeout_tasks, cancelled_tasks, wapc, varsDL, varsQ, varsC>>

\* main.cpp:78-114, the locked section of one round of the worker loop; late
\* is the outcome of top_task.deadline < now (line 98)
PWorkerTake(w) ==
    /\ wpc[w][1] = "ready"
    /\ pret' = "none"
    /\ IF ~WaitOver(stop, tasks)
       THEN /\ wpc' = [wpc EXCEPT ![w] = <<"wait", 0>>]
            /\ UNCHANGED <<tasks, future, fate, timeout_tasks, cancelled_tasks>>
       ELSE IF ExitNow(stop, tasks)
       THEN /\ wpc' = [wpc EXCEPT ![w] = <<"exited", 0>>]
            /\ UNCHANGED <<tasks, future, fate, timeout_tasks, cancelled_tasks>>
       ELSE /\ tasks # {}
            /\ \E top \in TopTasks(tasks), late \in BOOLEAN :
                  LET id == top.id IN
                  /\ tasks' = Pop1(tasks, top)
                  /\ timeout_tasks' = IF late THEN timeout_tasks + 1 ELSE timeout_tasks
                  /\ cancelled_tasks' = IF ~late /\ Cancelled(id)
                                        THEN cancelled_tasks + 1 ELSE cancelled_tasks
                  /\ IF TakesCallable(late, Cancelled(id))
                     THEN /\ wpc' = [wpc EXCEPT ![w] = <<"got", id>>]
                          /\ fate' = [fate EXCEPT ![id] = "taken"]
                          /\ UNCHANGED future
                     ELSE /\ fate' = [fate EXCEPT ![id] = IF late THEN "timed_out" ELSE "cancelled"]
                          /\ future' = [future EXCEPT ![id] =
                                           DroppedFuture(IF late THEN "timed_out" ELSE "cancelled")]
                          /\ UNCHANGED wpc
    /\ UNCHANGED <<runs, stop, dpc, active_threads, completed_tasks,
                   failed_tasks, wapc, varsDL, varsQ, varsC>>

\* main.cpp:117-119
PWorkerStart(w) ==
    /\ wpc[w][1] = "got"
    /\ active_threads' = active_threads + 1
    /\ wpc' = [wpc EXCEPT ![w] = <<"exec", wpc[w][2]>>]
    /\ pret' = "none"
    /\ UNCHANGED <<tasks, future, fate, runs, stop, dpc, completed_tasks,
                   failed_tasks, timeout_tasks, cancelled_tasks, wapc, varsDL, varsQ, varsC>>

\* main.cpp:121-135, task() and the counter of its outcome; throws is whether
\* the submitted callable raises
PWorkerRun(w) ==
    /\ wpc[w][1] = "exec"
    /\ \E throws \in BOOLEAN :
          LET id == wpc[w][2] IN
          /\ runs' = [runs EXCEPT ![id] = @ + 1]
          /\ future' = [future EXCEPT ![id] = PackagedTaskFuture(throws)]
          /\ IF PackagedTaskEscapes(throws)
             THEN /\ failed_tasks' = failed_tasks + 1
                  /\ fate' = [fate EXCEPT ![id] = "failed"]
                  /\ UNCHANGED completed_tasks
             ELSE /\ completed_tasks' = completed_tasks + 1
                  /\ fate' = [fate EXCEPT ![id] = "completed"]
                  /\ UNCHANGED failed_tasks
          /\ wpc' = [wpc EXCEPT ![w] = <<"ran", id>>]
    /\ pret' = "none"
    /\ UNCHANGED <<tasks, stop, dpc, active_threads, timeout_tasks,
                   cancelled_tasks, wapc, varsDL, varsQ, varsC>>

\* main.cpp:137
PWorkerDone(w) ==
    /\ wpc[w][1] = "ran"
    /\ active_threads' = active_threads - 1
    /\ wpc' = [wpc EXCEPT ![w] = <<"ready", 0>>]
    /\ pret' = "none"
    /\ UNCHANGED <<tasks, future, fate, runs, stop, dpc, completed_tasks,
                   failed_tasks, timeout_tasks, cancelled_tasks, wapc, varsDL, varsQ, varsC>>

\* condition.wait (line 83) may return without a notification
PSpuriousWakeup(w) ==
    /\ wpc[w][1] = "wait"
    /\ wpc' = [wpc EXCEPT ![w] = <<"ready", 0>>]
    /\ pret' = "none"
    /\ UNCHANGED <<tasks, future, fate, runs, stop, dpc, active_threads,
                   completed_tasks, failed_tasks, timeout_tasks, cancelled_tasks,
                   wapc, varsDL, varsQ, varsC>>

\* main.cpp:164-167
PDestroyStop ==
    /\ dpc = "alive"
    /\ stop' = TRUE
    /\ dpc' = "notify"
    /\ pret' = "none"
    /\ UNCHANGED <<tasks, future, fate, runs, wpc, active_threads,
                   completed_tasks, failed_tasks, timeout_tasks, cancelled_tasks,
                   wapc, varsDL, varsQ, varsC>>

\* main.cpp:169
PDestroyNotify ==
    /\ dpc = "notify"
    /\ wpc' = PNotifyAll(wpc)
    /\ dpc' = "join"
    /\ pret' = "none"
    /\ UNCHANGED <<tasks, future, fate, runs, stop, active_threads,
                   completed_tasks, failed_tasks, timeout_tasks, cancelled_tasks,
                   wapc, varsDL, varsQ, varsC>>

\* main.cpp:170-177: every join has returned
PDestroyJoin ==
    /\ dpc = "join"
    /\ \A w \in Workers : wpc[w][1] = "exited"
    /\ dpc' = "returned"
    /\ pret' = "none"
    /\ UNCHANGED <<tasks, future, fate, runs, wpc, stop, active_threads,
                   completed_tasks, failed_tasks, timeout_tasks, cancelled_tasks,
                   wapc, varsDL, varsQ, varsC>>

PWorker(w) == PWorkerTake(w) \/ PWorkerStart(w) \/ PWorkerRun(w) \/ PWorkerDone(w)

NextP ==
    \/ \E priority \in Priorities : PSubmit(priority)
    \/ \E w \in Workers : PWorkerTake(w)
    \/ \E w \in Workers : PWorkerStart(w)
    \/ \E w \in Workers : PWorkerRun(w)
    \/ \E w \in Workers : PWorkerDone(w)
    \/ \E w \in Workers : PSpuriousWakeup(w)
    \/ PDestroyStop
    \/ PDestroyNotify
    \/ PDestroyJoin

Finished == completed_tasks + failed_tasks + timeout_tasks + cancelled_tasks
Terminal == {"completed", "failed", "timed_out", "cancelled"}
AllExited == \A w \in Workers : wpc[w][1] = "exited"
\* every worker is blocked in condition.wait or has returned
Quiescent == \A w \in Workers : wpc[w][1] \in {"wait", "exited"}

\* C15: a submit made while stop is set fails with the Stopped error, enqueues
\* nothing and changes no counter; once stop is set no step adds a task to the
\* queue; a submit made while stop is clear enqueues exactly one task.
C15_SubmitStopped ==
    [][ /\ (\E priority \in Priorities : PSubmit(priority)) =>
              IF stop
              THEN /\ pret' = "Stopped"
                   /\ UNCHANGED <<tasks, future, active_threads, completed_tasks,
                                  failed_tasks, timeout_tasks, cancelled_tasks>>
              ELSE /\ pret' = "accepted"
                   /\ tasks \subseteq tasks'
                   /\ Cardinality(tasks') = Cardinality(tasks) + 1
                   /\ Len(future') = Len(future) + 1
        /\ stop => (stop' /\ tasks' \subseteq tasks /\ Len(future') = Len(future))
      ]_vars

\* C15 witness: a submit has just been refused by a stopped pool that still
\* has accepted tasks queued.
C15_Witness ==
    /\ pret = "Stopped"
    /\ tasks # {}

\* C16: a worker exits only when stop is set and the queue is empty; the
\* destructor returns only when every worker has exited, every accepted task
\* has been popped and run or discarded, and nothing is running; and once the
\* destructor has set stop it eventually returns.
C16_GracefulShutdown ==
    /\ []((\E w \in Workers : wpc[w][1] = "exited") => (stop /\ tasks = {}))
    /\ [](dpc = "returned" =>
            /\ AllExited
            /\ tasks = {}
            /\ active_threads = 0
            /\ \A id \in TaskIds : fate[id] \in Terminal)
    /\ (stop ~> (dpc = "returned"))

\* C16 witness: the destructor has returned from a pool that had accepted
\* tasks, one of which was still queued or running when stop was set.
C16_Witness ==
    /\ dpc = "returned"
    /\ Accepted = MaxTasks
    /\ \E id \in TaskIds : fate[id] = "completed"

\* C17: when the callable of a submitted task raises, the worker counts the
\* task as failed and not as completed (and the future carries the error).
C17_RaisingTaskCountsAsFailed ==
    /\ failed_tasks = Cardinality({id \in TaskIds : future[id] = "error"})
    /\ \A id \in TaskIds : future[id] = "error" => fate[id] = "failed"

\* C18: a task found past its deadline is popped and counted in timed_out,
\* its callable is never run, and its future resolves to an outcome that
\* differs from a normal result, from a failure and from that of a cancelled
\* task.
C18_TimedOutIsTold ==
    \A id \in TaskIds :
        fate[id] = "timed_out" =>
            /\ id \notin QueuedIds
            /\ runs[id] = 0
            /\ future[id] \notin {"pending", "value", "error"}
            /\ future[id] # DroppedFuture("cancelled")

\* C19: the four outcome counters never decrease, their sum never exceeds the
\* number of accepted submissions, and in every quiescent state the sum plus
\* pending plus active equals the number of accepted submissions.
C19_Accounting ==
    /\ [](Finished <= Accepted)
    /\ [](Quiescent => Finished + Cardinality(tasks) + active_threads = Accepted)
    /\ [][ /\ completed_tasks' >= completed_tasks
           /\ failed_tasks' >= failed_tasks
           /\ timeout_tasks' >= timeout_tasks
           /\ cancelled_tasks' >= cancelled_tasks ]_vars

\* C19 witness: the workers are all waiting after every task the pool ever
\* accepted was either run or dropped as timed out.
C19_Witness ==
    /\ Quiescent
    /\ Accepted = MaxTasks
    /\ completed_tasks > 0
    /\ timeout_tasks > 0

\* C20: 0 <= active <= worker_count, at most worker_count callables execute
\* at a time, and each popped task is in the hands of one worker only and is
\* executed at most once (exactly once when it was not dropped).
C20_ActiveBounded ==
    /\ active_threads >= 0
    /\ active_threads <= NumWorkers
    /\ active_threads = Cardinality({w \in Workers : wpc[w][1] \in {"exec", "ran"}})
    /\ \A id \in TaskIds :
          /\ runs[id] <= 1
          /\ Cardinality({w \in Workers : wpc[w][2] = id}) <= 1
          /\ fate[id] \in {"completed", "failed"} => runs[id] = 1
          /\ fate[id] \in {"queued", "taken", "timed_out", "cancelled"} => runs[id] = 0
          /\ (\E w \in Workers : wpc[w][2] = id) => id \notin QueuedIds

\* C20 witness: every worker is executing a task while another is queued.
C20_Witness ==
    /\ active_threads = NumWorkers
    /\ \A w \in Workers : wpc[w][1] = "exec"
    /\ tasks # {}

\* C21: whenever a worker pops a task, that task's priority is at least the
\* priority of every task queued at that moment; and a task a worker has taken
\* stays with that worker until it has run: no step takes it away or puts it
\* back in the queue, whatever is submitted meanwhile.
C21_StrictPriority ==
    [][ /\ \A popped_task \in tasks \ tasks' :
              \A other \in tasks : popped_task.priority >= other.priority
        /\ \A queued \in tasks' \ tasks : queued.id = Accepted + 1
        /\ \A w \in Workers :
              wpc[w][1] \in {"got", "exec"} =>
                  /\ wpc'[w][2] = wpc[w][2]
                  /\ wpc'[w][1] \in {wpc[w][1], IF wpc[w][1] = "got" THEN "exec" ELSE "ran"}
      ]_vars

\* C21 witness: a worker has taken a task submitted later than one of lower
\* than top priority that is still queued, and another worker is executing.
C21_Witness ==
    /\ \E w \in Workers : wpc[w][1] = "got" /\
          \E t \in tasks : t.id < wpc[w][2] /\ t.priority < MaxPriority
    /\ \E w \in Workers : wpc[w][1] = "exec"

\* C23: every task submit accepted eventually has a resolved future (a value,
\* the error its callable raised, or the broken promise of a task dropped as
\* timed out or cancelled), under fair scheduling of the workers, also when
\* the pool is destroyed while tasks are queued: whatever has been accepted,
\* there is always a later moment at which no accepted future is pending (a
\* resolved future stays resolved).
C23_EveryFutureResolves ==
    []<>(\A id \in TaskIds : future[id] # "pending")

\* C23 witness: the destructor has set stop while an accepted task was still
\* queued, and an earlier task has its future resolved.
C23_Witness ==
    /\ stop
    /\ tasks # {}
    /\ \E id \in TaskIds : future[id] # "pending"

\* ---------------------------------------------------- ThreadPool: wait_all
\* main.cpp:257-269.  The loop condition reads get_pending_tasks() (under
\* queue_mutex) and then, when that is 0, active_threads: two reads at two
\* moments.  wapc = <<position, number of tasks accepted when the call began>>:
\*   "idle"    no call in progress (the number is that of the last call)
\*   "loop"    inside the loop, about to test the condition again
\*   "active"  get_pending_tasks() was 0, about to read active_threads
\* expired is the outcome of now - start > timeout (line 262).

\* main.cpp:262-266, the body of the loop
PWaitAllRound(n, expired) ==
    IF expired
    THEN /\ pret' = "wait_all_false"
         /\ wapc' = <<"idle", n>>
    ELSE /\ pret' = "none"
         /\ wapc' = <<"loop", n>>

\* main.cpp:259-260, the call and the first half of the loop condition
PWaitAllPending ==
    /\ wapc[1] \in {"idle", "loop"}
    /\ dpc = "alive"
    /\ LET n == IF wapc[1] = "idle" THEN Accepted ELSE wapc[2]
       IN  IF Cardinality(tasks) > 0
           THEN \E expired \in BOOLEAN : PWaitAllRound(n, expired)
           ELSE /\ pret' = "none"
                /\ wapc' = <<"active", n>>
    /\ UNCHANGED <<tasks, future, fate, runs, wpc, stop, dpc, active_threads,
                   completed_tasks, failed_tasks, timeout_tasks, cancelled_tasks,
                   varsDL, varsQ, varsC>>

\* main.cpp:260, the second half of the loop condition, and line 268
PWaitAllActive ==
    /\ wapc[1] = "active"
    /\ IF active_threads > 0
       THEN \E expired \in BOOLEAN : PWaitAllRound(wapc[2], expired)
       ELSE /\ pret' = "wait_all_true"
            /\ wapc' = <<"idle", wapc[2]>>
    /\ UNCHANGED <<tasks, future, fate, runs, wpc, stop, dpc, active_threads,
                   completed_tasks, failed_tasks, timeout_tasks, cancelled_tasks,
                   varsDL, varsQ, varsC>>

NextPW ==
    \/ NextP
    \/ PWaitAllPending
    \/ PWaitAllActive

\* C22: whenever wait_all returns true, every task accepted before the call
\* started has reached a terminal outcome: none is queued, about to start or
\* executing.
C22_WaitAllTrueMeansDone ==
    pret = "wait_all_true" => \A id \in 1..wapc[2] : fate[id] \in Terminal

\* C24.  In a history in which every thread releases its hierarchical locks in
\* LIFO order, a thread that holds at least one lock has
\* previous_hierarchy_level <= the smallest level it holds; so the levels it
\* holds are all different, it holds no lock twice, and it is never inside
\* mutex.lock() of a lock it already holds.
C24_PreviousBelowHeld ==
    lifo => \A t \in HThreads :
                held[t] # <<>> =>
                    /\ \A m \in HeldSet(t) :
                          previous_hierarchy_level[t] <= hierarchy_level[m]
                    /\ \A i, j \in 1..Len(held[t]) :
                          i # j => /\ held[t][i] # held[t][j]
                                   /\ hierarchy_level[held[t][i]] # hierarchy_level[held[t][j]]
                    /\ hpc[t] \notin HeldSet(t)

\* C24 witness: a thread that still holds two locks after it released, in LIFO
\* order, a third of a lower level (previous_hierarchy_level is below the level
\* of the newest lock held only after such a release).
C24_Witness ==
    /\ lifo
    /\ \E t \in HThreads :
          /\ Len(held[t]) = 2
          /\ previous_hierarchy_level[t] < hierarchy_level[Last(held[t])]

\* C25 (as claimed; the code violates it).  A thread that holds no
\* HierarchicalMutex after correctly nested lock/unlock calls is never refused
\* by the level check: lock() on a lock of any level below ULONG_MAX, a lock it
\* locked and unlocked before included, does not throw the hierarchy
\* violation, and try_lock() on a free lock acquires it.
C25_NoRefusalWhenHoldingNothing ==
    [][\A t \in HThreads, m \in HMutexes :
          (lifo /\ held[t] = <<>> /\ hpc[t] = 0 /\ hierarchy_level[m] < ULONG_MAX) =>
              /\ HLockCall(t, m) => hret' # "HierarchyViolation"
              /\ (hmutex[m] = Free /\ HTryLock(t, m)) => hmutex'[m] = t
      ]_vars

\* A set of threads each blocked inside mtx->lock() of a mutex that another
\* thread of the set owns: none of them can ever proceed.
TDeadlock ==
    \E S \in SUBSET Threads :
        /\ S # {}
        /\ \A t \in S : \E u \in S, m \in Mutexes : TBlockedOn(t, m, u)

\* C26 (as claimed; the code violates it).  With the graph fed through
\* TrackedMutex, hasDeadlock() returns true only when the threads of a cycle
\* are blocked in lock(), each on a mutex owned by the next; threads that are
\* inside try_lock(), which never blocks, do not make it return true.
C26_NoFalsePositive == ret = "true" => TDeadlock

\* main.cpp:104-105: the consumers together take exactly what the producers emit
SupplyMeetsDemand ==
    num_producers * items_per_producer = num_consumers * items_per_consumer

\* C27.  The bounded queue loses no wakeup.  Under fair scheduling, when the
\* consumers' total demand equals the producers' total supply every
\* interleaving ends with all threads finished; and in any case no consumer
\* stays blocked in not_empty.wait for ever while the queue is non-empty, and
\* no producer stays blocked in not_full.wait for ever while the queue is not
\* full.
C27_NoLostWakeup ==
    /\ SupplyMeetsDemand => <>QFinished
    /\ \A c \in Consumers : []<>~(qpc[c] = "wait" /\ NotEmpty(queue))
    /\ \A p \in Producers : []<>~(qpc[p] = "wait" /\ NotFull(queue, capacity))

\* C27 witness: with capacity 2, a consumer is inside not_empty.wait while the
\* queue holds an item and a producer is inside not_full.wait while the queue
\* has room (the notifications went to other threads).
C27_Witness ==
    /\ capacity = 2
    /\ \E c \in Consumers : qpc[c] = "wait" /\ NotEmpty(queue)
    /\ \E p \in Producers : qpc[p] = "wait" /\ NotFull(queue, capacity)

\* Each specification starts the parts it does not use with no thread and no
\* object of theirs (empty functions), and never changes them.
IdleH ==
    /\ hierarchy_level = <<>>
    /\ hmutex = <<>>
    /\ previous_hierarchy_level = <<>>
    /\ hpc = <<>>
    /\ held = <<>>
    /\ lifo = TRUE
    /\ hret = "none"

IdleT ==
    /\ mtx = <<>>
    /\ locked = <<>>
    /\ pc = <<>>

IdleQ ==
    /\ capacity = 1
    /\ queue = <<>>
    /\ qpc = <<>>
    /\ qi = <<>>
    /\ pushed = <<>>
    /\ popped = <<>>

IdleC ==
    /\ cache = << >>
    /\ cpc = <<>>
    /\ lastWrite = <<>>
    /\ cret = <<"none">>

IdleP ==
    /\ tasks = {}
    /\ future = <<>>
    /\ fate = <<>>
    /\ runs = <<>>
    /\ wpc = <<>>
    /\ stop = FALSE
    /\ dpc = "alive"
    /\ active_threads = 0
    /\ completed_tasks = 0
    /\ failed_tasks = 0
    /\ timeout_tasks = 0
    /\ cancelled_tasks = 0
    /\ pret = "none"
    /\ wapc = <<"idle", 0>>

IdleDL == IdleH /\ InitG /\ IdleT

InitSpecH == InitH /\ InitG /\ IdleT /\ IdleQ /\ IdleC /\ IdleP
InitSpecG == IdleH /\ InitG /\ IdleT /\ IdleQ /\ IdleC /\ IdleP
InitSpecT == IdleH /\ InitG /\ InitT /\ IdleQ /\ IdleC /\ IdleP
InitSpecQ == IdleDL /\ InitQ /\ IdleC /\ IdleP
InitSpecC == IdleDL /\ IdleQ /\ InitC /\ IdleP
InitSpecP == IdleDL /\ IdleQ /\ IdleC /\ InitP

NextH ==
    \E t \in HThreads, m \in HMutexes :
        \/ HLockCall(t, m)
        \/ HLockAcquire(t, m)
        \/ HLockSelfError(t, m)
        \/ HTryLock(t, m)
        \/ HUnlock(t, m)

SpecH == InitSpecH /\ [][NextH]_vars

SpecG == InitSpecG /\ [][NextG]_vars

SpecT == InitSpecT /\ [][NextT]_vars

SpecQ == InitSpecQ /\ [][NextQ]_vars

SpecC == InitSpecC /\ [][NextC]_vars

SpecP == InitSpecP /\ [][NextP]_vars

\* The producer and consumer threads are scheduled fairly: a thread that can
\* enter produce() or consume(), or return from a notified wait, does so.
\* Wakeups without a notification are possible and never relied on.
SpecQLive ==
    /\ InitSpecQ
    /\ [][NextQ]_vars
    /\ \A p \in Producers : WF_vars(QProduce(p))
    /\ \A c \in Consumers : WF_vars(QConsume(c))

\* SpecP with one more thread, which calls wait_all
SpecPW == InitSpecP /\ [][NextPW]_vars

\* The threads of the pool are scheduled fairly: a worker that can take its next
\* step takes it, and so does the thread inside the destructor.  Wakeups
\* without a notification are possible and never relied on.
SpecPLive ==
    /\ InitSpecP
    /\ [][NextP]_vars
    /\ \A w \in Workers : WF_vars(PWorker(w))
    /\ WF_vars(PDestroyNotify \/ PDestroyJoin)

====
